---- MODULE Spec2Model ----
(***************************************************************************)
(* Model of act-biso_labels.py: a CSV lookup loader, a directory walker    *)
(* and a line-oriented editor that inserts a biso_team label into the      *)
(* labels block of terragrunt.hcl files.                                   *)
(*                                                                         *)
(* Strings are sequences of tokens.  A token is one character, except the  *)
(* literals the program searches for, which are one token each.            *)
(* A line of a configuration file is a record of what the program's        *)
(* regular expressions and substring tests can see of it:                  *)
(*   kind   "opener"  the line contains  labels = {                        *)
(*          "closer"  line.strip() == "}"                                  *)
(*          "label"   the line matches last_label_pattern                  *)
(*          "other"   anything else (blank, comment, ...)                  *)
(*   indent the number of leading whitespace characters                    *)
(*   name   the capture of project_name_pattern in the line, or NoName     *)
(*   value  the quoted value of a biso_team line, or NoValue               *)
(*   eol    the line terminator: "LF", "CRLF" or "none" (end of file)      *)
(***************************************************************************)
EXTENDS Integers, Sequences, FiniteSets, TLC

VARIABLES csv, iac_is_dir, platform, fs, pc, project_info, todo,
          files_processed, files_modified, reported,
          outcome, reads, writes, counted, edits,
          runs, fs0, fsRun, fsPrev, last, updates

vars == <<csv, iac_is_dir, platform, fs, pc, project_info, todo,
          files_processed, files_modified, reported,
          outcome, reads, writes, counted, edits,
          runs, fs0, fsRun, fsPrev, last, updates>>

(* ---------------------------- bounds ----------------------------------- *)

MaxRows == 2

MaxLines == 5

MaxRuns == 2

(* ------------------------ program constants ---------------------------- *)

PROJECT_NAME_COL == "PROJECT_NAME"

EMAIL_COL == "BISO_TEAM"

DefaultIndent == 4

Domain == "@teco.com.ar"

Sanitized == "-teco_com_ar"

Space == " "

NoName == <<"<no match>">>

NoValue == <<"<not biso_team>">>

(* ------------------------------ strings -------------------------------- *)

RECURSIVE LStrip(_)
LStrip(s) ==
    IF s = <<>> THEN <<>>
    ELSE IF Head(s) = Space THEN LStrip(Tail(s)) ELSE s

RECURSIVE RStrip(_)
RStrip(s) ==
    IF s = <<>> THEN <<>>
    ELSE IF s[Len(s)] = Space THEN RStrip(SubSeq(s, 1, Len(s) - 1)) ELSE s

\* str.strip()
Strip(s) == RStrip(LStrip(s))

\* email.replace("@teco.com.ar", "-teco_com_ar"): every occurrence
format_email_for_label(email) ==
    [i \in DOMAIN email |-> IF email[i] = Domain THEN Sanitized ELSE email[i]]

(* ---------------------------- Lookup Loader ---------------------------- *)

\* Optional[Dict[str, str]]
NoneInfo == [isNone |-> TRUE, dict |-> <<>>]

SomeInfo(d) == [isNone |-> FALSE, dict |-> d]

\* project_data[project_name] = email
DictSetFirstWins(d, k, v) ==
    [x \in (DOMAIN d) \cup {k} |-> IF x \in DOMAIN d THEN d[x] ELSE v]

DictSet(d, k, v) ==
    [x \in (DOMAIN d) \cup {k} |-> IF x = k THEN v ELSE d[x]]

\* a cell of a csv.DictReader row: a string, or None when the row is short
Cell(t) == [missing |-> FALSE, text |-> t]

MissingCell == [missing |-> TRUE, text |-> <<>>]

\* the for loop over the reader; None.strip() raises and the except
\* clause turns the exception into a None result
RECURSIVE LoadRows(_, _, _)
LoadRows(rows, i, project_data) ==
    IF i > Len(rows) THEN SomeInfo(project_data)
    ELSE IF rows[i].name.missing \/ rows[i].email.missing THEN NoneInfo
    ELSE LET project_name == Strip(rows[i].name.text)
             email == Strip(rows[i].email.text)
         IN  IF project_name # <<>> /\ email # <<>>
             THEN LoadRows(rows, i + 1, DictSet(project_data, project_name, email))
             ELSE LoadRows(rows, i + 1, project_data)

load_project_data(c) ==
    IF ~c.is_file THEN NoneInfo
    ELSE IF c.fieldnames.isNone THEN NoneInfo
    ELSE IF PROJECT_NAME_COL \notin c.fieldnames.names
            \/ EMAIL_COL \notin c.fieldnames.names THEN NoneInfo
    ELSE LoadRows(c.rows, 1, <<>>)

\* "if project_info:"  None and the empty dict are both falsy
TruthyAlways(info) == TRUE

Truthy(info) == ~info.isNone /\ DOMAIN info.dict # {}

(* ----------------------------- Block Editor ---------------------------- *)

\* open(file_path, 'r') reads with universal newlines: "\r\n" becomes "\n"
readlines(lines) ==
    [i \in DOMAIN lines |->
        IF lines[i].eol = "CRLF" THEN [lines[i] EXCEPT !.eol = "LF"] ELSE lines[i]]

\* os.linesep
linesep(pf) == IF pf = "nt" THEN "CRLF" ELSE "LF"

\* open(file_path, 'w') writes every "\n" as os.linesep
writelines(new_lines, pf) ==
    [i \in DOMAIN new_lines |->
        IF new_lines[i].eol = "LF" THEN [new_lines[i] EXCEPT !.eol = linesep(pf)]
        ELSE new_lines[i]]

\* last_label_pattern.match(line)
last_label_pattern(line) == line.kind = "label"

\* "labels = {" in line
HasOpener(line) == line.kind = "opener"

\* in_labels_block and line.strip() == "}"
IsBlockEndUnlessLabelled(in_labels_block, lines, i) ==
    /\ in_labels_block
    /\ lines[i].kind = "closer"
    /\ ~(i > 1 /\ lines[i - 1].value # NoValue)

IsBlockEnd(in_labels_block, lines, i) ==
    in_labels_block /\ lines[i].kind = "closer"

\* range(i - 1, 0, -1) is exhausted: Python's j > 0 is j > 1 here, where
\* lines are numbered from 1
RangeExhaustedAtFirstLine(j) == j <= 0

RangeExhausted(j) == j <= 1

\* for j in range(i - 1, 0, -1): the backward search for a label line
RECURSIVE FindIndentation(_, _)
FindIndentation(lines, j) ==
    IF RangeExhausted(j) THEN DefaultIndent
    ELSE IF last_label_pattern(lines[j])
         THEN IF lines[j].indent > 0 THEN lines[j].indent ELSE DefaultIndent
         ELSE FindIndentation(lines, j - 1)

\* f'{indentation}biso_team                   = "{formatted_email}"\n'
biso_team_line(indentation, formatted_email) ==
    [kind |-> "label", indent |-> indentation, name |-> NoName,
     value |-> formatted_email, eol |-> "LF"]

\* new_lines.insert(-1, x)
InsertBeforeLast(s, x) ==
    IF s = <<>> THEN <<x>>
    ELSE Append(SubSeq(s, 1, Len(s) - 1), x) \o <<s[Len(s)]>>

\* the for loop of update_terragrunt_file; ins logs each insertion made
RECURSIVE ScanLines(_, _, _, _)
ScanLines(lines, i, st, email_to_add) ==
    IF i > Len(lines) THEN st
    ELSE LET appended == Append(st.new_lines, lines[i])
         IN  IF HasOpener(lines[i])
             THEN ScanLines(lines, i + 1,
                      [new_lines |-> appended,
                       in_labels_block |-> TRUE,
                       labels_block_found |-> TRUE,
                       ins |-> st.ins], email_to_add)
             ELSE IF IsBlockEnd(st.in_labels_block, lines, i)
             THEN LET indentation == FindIndentation(lines, i - 1)
                      formatted_email == format_email_for_label(email_to_add)
                  IN  ScanLines(lines, i + 1,
                          [new_lines |-> InsertBeforeLast(appended,
                                biso_team_line(indentation, formatted_email)),
                           in_labels_block |-> FALSE,
                           labels_block_found |-> st.labels_block_found,
                           ins |-> Append(st.ins, [at |-> i, indent |-> indentation])],
                          email_to_add)
             ELSE ScanLines(lines, i + 1, [st EXCEPT !.new_lines = appended],
                            email_to_add)

ScanStart ==
    [new_lines |-> <<>>, in_labels_block |-> FALSE,
     labels_block_found |-> FALSE, ins |-> <<>>]

\* "if not labels_block_found: return" before the file is opened for writing
MayWriteAlways(labels_block_found) == TRUE

MayWrite(labels_block_found) == labels_block_found

\* the result of one call: the file's lines afterwards, the message printed,
\* whether the file was opened for writing, and the insertions written
update_terragrunt_file(f, email_to_add, pf) ==
    LET lines == readlines(f.lines)
        st == ScanLines(lines, 1, ScanStart, email_to_add)
    IN  IF ~MayWrite(st.labels_block_found)
        THEN [lines |-> f.lines, outcome |-> "notfound", wrote |-> FALSE, ins |-> <<>>]
        ELSE IF ~f.writable
        THEN [lines |-> f.lines, outcome |-> "error", wrote |-> FALSE, ins |-> <<>>]
        ELSE [lines |-> writelines(st.new_lines, pf), outcome |-> "updated",
              wrote |-> TRUE, ins |-> st.ins]

(* --------------------------- Directory Walker -------------------------- *)

\* iac_path.glob("**/project/terragrunt.hcl")
Matches(p) ==
    /\ Len(p) >= 2
    /\ p[Len(p)] = "terragrunt.hcl"
    /\ p[Len(p) - 1] = "project"

MatchesAnyDir(p) == Len(p) >= 2 /\ p[Len(p)] = "terragrunt.hcl"

Glob(tree) == {p \in DOMAIN tree : Matches(p)}

\* project_name_pattern.search(content): the first match in the file
RECURSIVE SearchName(_, _)
SearchName(lines, i) ==
    IF i > Len(lines) THEN NoName
    ELSE IF lines[i].name # NoName THEN lines[i].name
    ELSE SearchName(lines, i + 1)

\* current_project_name in project_data (a TypeError when it is None)
InData(name, info) == ~info.isNone /\ name \in DOMAIN info.dict

\* whether files_modified is incremented after the editor returns
CountsOnlyUpdated(result) == result = "updated"

CountsAsModified(result) == TRUE

(* ------------------------------- inputs -------------------------------- *)

\* line contents
Opener == [kind |-> "opener", indent |-> 0, name |-> NoName, value |-> NoValue]

Closer == [kind |-> "closer", indent |-> 0, name |-> NoName, value |-> NoValue]

\* env = "prod"  at the left margin
Label0 == [kind |-> "label", indent |-> 0, name |-> NoName, value |-> NoValue]

\* name = "p"  indented by two spaces
NameP == [kind |-> "label", indent |-> 2, name |-> <<"p">>, value |-> NoValue]

\* name = "q"  indented by two spaces
NameQ == [kind |-> "label", indent |-> 2, name |-> <<"q">>, value |-> NoValue]

Blank == [kind |-> "other", indent |-> 0, name |-> NoName, value |-> NoValue]

Alphabet == {Opener, Closer, Label0, NameP, Blank}

WithEol(c, e) ==
    [kind |-> c.kind, indent |-> c.indent, name |-> c.name, value |-> c.value,
     eol |-> e]

\* a text file whose lines all end with the terminator e
Text(contents, e) == [i \in DOMAIN contents |-> WithEol(contents[i], e)]

File(contents, e, r, w) ==
    [lines |-> Text(contents, e), readable |-> r, writable |-> w]

Contents(n) == UNION {[1..k -> Alphabet] : k \in 0..n}

P1 == <<"project", "terragrunt.hcl">>

P2 == <<"a", "project", "terragrunt.hcl">>

P3 == <<"a", "terragrunt.hcl">>

Paths == {P1, P2, P3}

NoPath == <<>>

\* the files of the small trees
SmallFiles ==
    { File(<<NameP, Opener, Label0, Closer>>, "LF", TRUE, TRUE),
      File(<<NameP, Blank>>, "LF", TRUE, TRUE),
      File(<<NameQ, Opener, Closer>>, "LF", TRUE, TRUE),
      File(<<Opener, Closer>>, "LF", TRUE, TRUE),
      File(<<NameP, Opener, Closer>>, "LF", TRUE, FALSE),
      File(<<NameP, Opener, Closer>>, "LF", FALSE, TRUE) }

Trees(files) ==
    UNION {[D -> files] : D \in SUBSET Paths}

UserT == <<"u", Domain>>

UserO == <<"v", "@other.com">>

Row(n, e) == [name |-> n, email |-> e]

Header(names) == [isNone |-> FALSE, names |-> names]

EmptyFile == [isNone |-> TRUE, names |-> {}]

Csv(exists, h, rows) == [is_file |-> exists, fieldnames |-> h, rows |-> rows]

BothCols == Header({PROJECT_NAME_COL, EMAIL_COL})

GoodCsv == Csv(TRUE, BothCols, <<Row(Cell(<<"p">>), Cell(UserT))>>)

SmallCsvs ==
    { GoodCsv,
      Csv(FALSE, EmptyFile, <<>>),
      Csv(TRUE, Header({PROJECT_NAME_COL, "EMAIL"}), <<>>),
      Csv(TRUE, BothCols, <<>>) }

NameCells ==
    {MissingCell, Cell(<<Space>>), Cell(<<"p">>), Cell(<<Space, "p", Space>>),
     Cell(<<"q">>)}

EmailCells ==
    {MissingCell, Cell(<<>>), Cell(UserT), Cell(<<Space>> \o UserO)}

Rows(n) == UNION {[1..k -> {Row(a, b) : a \in NameCells, b \in EmailCells}] : k \in 0..n}

RichCsvs ==
    {Csv(TRUE, BothCols, r) : r \in Rows(MaxRows)}
    \cup {Csv(FALSE, EmptyFile, <<>>), Csv(TRUE, EmptyFile, <<>>),
          Csv(TRUE, Header({EMAIL_COL}), <<Row(MissingCell, Cell(UserT))>>),
          Csv(TRUE, Header({PROJECT_NAME_COL}), <<Row(Cell(<<"p">>), MissingCell)>>)}

(* ---------------------------- state machine ---------------------------- *)

NotReported == [done |-> FALSE, processed |-> 0, modified |-> 0]

InitRun ==
    /\ pc = "start"
    /\ project_info = NoneInfo
    /\ todo = {}
    /\ files_processed = 0
    /\ files_modified = 0
    /\ reported = NotReported
    /\ outcome = [p \in DOMAIN fs |-> "none"]
    /\ reads = {}
    /\ writes = {}
    /\ counted = {}
    /\ edits = <<>>
    /\ runs = 1
    /\ fs0 = fs
    /\ fsRun = fs
    /\ fsPrev = fs
    /\ last = NoPath
    /\ updates = [p \in DOMAIN fs |-> 0]

\* the whole program on small trees
Init ==
    /\ csv \in SmallCsvs
    /\ iac_is_dir \in BOOLEAN
    /\ platform \in {"posix", "nt"}
    /\ fs \in Trees(SmallFiles)
    /\ InitRun

\* every lookup file of the bound, one tree
InitLoad ==
    /\ csv \in RichCsvs
    /\ iac_is_dir = TRUE
    /\ platform = "posix"
    /\ fs = [p \in {P1} |-> File(<<NameP, Opener, Label0, Closer>>, "LF", TRUE, TRUE)]
    /\ InitRun

\* every configuration file of the bound, one lookup file
InitEdit ==
    /\ csv = GoodCsv
    /\ iac_is_dir = TRUE
    /\ platform \in {"posix", "nt"}
    /\ \E c \in Contents(MaxLines), e \in {"LF", "CRLF"} :
          fs = [p \in {P1} |-> File(c, e, TRUE, TRUE)]
    /\ InitRun

\* __main__: load_project_data, then main only if the result is truthy
Load ==
    /\ pc = "start"
    /\ project_info' = load_project_data(csv)
    /\ pc' = IF Truthy(project_info') THEN "main" ELSE "exit"
    /\ UNCHANGED <<csv, iac_is_dir, platform, fs, todo, files_processed,
                   files_modified, reported, outcome, reads, writes, counted,
                   edits, runs, fs0, fsRun, fsPrev, last, updates>>

\* main up to the loop: the directory check and the start of the glob
MainStart ==
    /\ pc = "main"
    /\ IF ~iac_is_dir
       THEN pc' = "exit" /\ todo' = {}
       ELSE pc' = "walk" /\ todo' = Glob(fs)
    /\ files_processed' = 0
    /\ files_modified' = 0
    /\ UNCHANGED <<csv, iac_is_dir, platform, fs, project_info, reported,
                   outcome, reads, writes, counted, edits, runs, fs0, fsRun,
                   fsPrev, last, updates>>

\* one iteration of main's loop, the call of the editor included
Visit(p) ==
    /\ pc = "walk"
    /\ p \in todo
    /\ todo' = todo \ {p}
    /\ files_processed' = files_processed + 1
    /\ last' = p
    /\ fsPrev' = fs
    /\ LET f == fs[p]
           current_project_name == SearchName(f.lines, 1)
           email == project_info.dict[current_project_name]
           r == update_terragrunt_file(f, email, platform)
       IN  IF ~f.readable
           THEN /\ outcome' = [outcome EXCEPT ![p] = "error"]
                /\ UNCHANGED <<fs, files_modified, reads, writes, counted,
                               edits, updates>>
           ELSE IF current_project_name = NoName
           THEN /\ outcome' = [outcome EXCEPT ![p] = "skipped"]
                /\ reads' = reads \cup {p}
                /\ UNCHANGED <<fs, files_modified, writes, counted, edits, updates>>
           ELSE IF project_info.isNone
           THEN /\ outcome' = [outcome EXCEPT ![p] = "error"]
                /\ reads' = reads \cup {p}
                /\ UNCHANGED <<fs, files_modified, writes, counted, edits, updates>>
           ELSE IF ~InData(current_project_name, project_info)
           THEN /\ outcome' = [outcome EXCEPT ![p] = "skipped"]
                /\ reads' = reads \cup {p}
                /\ UNCHANGED <<fs, files_modified, writes, counted, edits, updates>>
           ELSE /\ outcome' = [outcome EXCEPT ![p] = r.outcome]
                /\ reads' = reads \cup {p}
                /\ fs' = [fs EXCEPT ![p].lines = r.lines]
                /\ writes' = IF r.wrote THEN writes \cup {p} ELSE writes
                /\ edits' = r.ins
                /\ updates' = IF r.wrote THEN [updates EXCEPT ![p] = @ + 1]
                              ELSE updates
                /\ IF CountsAsModified(r.outcome)
                   THEN /\ files_modified' = files_modified + 1
                        /\ counted' = counted \cup {p}
                   ELSE UNCHANGED <<files_modified, counted>>
    /\ UNCHANGED <<csv, iac_is_dir, platform, pc, project_info, reported,
                   runs, fs0, fsRun>>

\* the summary printed after the loop
Summary ==
    /\ pc = "walk"
    /\ todo = {}
    /\ pc' = "done"
    /\ reported' = [done |-> TRUE, processed |-> files_processed,
                    modified |-> files_modified]
    /\ UNCHANGED <<csv, iac_is_dir, platform, fs, project_info, todo,
                   files_processed, files_modified, outcome, reads, writes,
                   counted, edits, runs, fs0, fsRun, fsPrev, last, updates>>

\* the program is started again with the same arguments
Rerun ==
    /\ pc \in {"done", "exit"}
    /\ runs < MaxRuns
    /\ runs' = runs + 1
    /\ pc' = "start"
    /\ project_info' = NoneInfo
    /\ todo' = {}
    /\ files_processed' = 0
    /\ files_modified' = 0
    /\ reported' = NotReported
    /\ outcome' = [p \in DOMAIN fs |-> "none"]
    /\ reads' = {}
    /\ writes' = {}
    /\ counted' = {}
    /\ edits' = <<>>
    /\ fsRun' = fs
    /\ fsPrev' = fs
    /\ last' = NoPath
    /\ UNCHANGED <<csv, iac_is_dir, platform, fs, fs0, updates>>

Next ==
    \/ Load
    \/ MainStart
    \/ \E p \in Paths : Visit(p)
    \/ Summary
    \/ Rerun

Spec == Init /\ [][Next]_vars

SpecLoad == InitLoad /\ [][Next]_vars

SpecEdit == InitEdit /\ [][Next]_vars

(* ------------------------- auxiliary definitions ----------------------- *)

\* a line without its terminator
Body(line) ==
    [kind |-> line.kind, indent |-> line.indent, name |-> line.name,
     value |-> line.value]

Bodies(lines) == [i \in DOMAIN lines |-> Body(lines[i])]

Max(S) == CHOOSE x \in S : \A y \in S : y <= x

Min(S) == CHOOSE x \in S : \A y \in S : x <= y

Openers(lines) == {i \in DOMAIN lines : lines[i].kind = "opener"}

Closers(lines) == {i \in DOMAIN lines : lines[i].kind = "closer"}

BisoLines(lines) == {i \in DOMAIN lines : lines[i].value # NoValue}

\* an opener line followed later by a closer line
HasBlock(lines) ==
    \E o \in Openers(lines) : \E c \in Closers(lines) : o < c

\* the first closer after the first opener
BlockEnd(lines) ==
    Min({c \in Closers(lines) : c > Min(Openers(lines))})

\* the name of the first line that declares one
DeclaredName(lines) ==
    LET D == {i \in DOMAIN lines : lines[i].name # NoName}
    IN  IF D = {} THEN NoName ELSE lines[Min(D)].name

\* the editor was called for file p in the last step
EditorCalled(p) ==
    /\ p = last
    /\ outcome[p] \in {"updated", "notfound", "error"}
    /\ fsPrev[p].readable
    /\ ~project_info.isNone
    /\ DeclaredName(fsPrev[p].lines) \in DOMAIN project_info.dict

Updated(p) == EditorCalled(p) /\ outcome[p] = "updated"

(* -------------------------------- claims ------------------------------- *)

\* C1: a visited file is changed only if its project name is a key of the
\* mapping and it contains the labels opener; every other visited file is
\* unchanged and is not counted in the modified-files count.
C1_MutatedOnlyIfMatchedElseNotCounted ==
    \A p \in DOMAIN fs :
        LET a == /\ fsRun[p].readable
                 /\ ~project_info.isNone
                 /\ DeclaredName(fsRun[p].lines) \in DOMAIN project_info.dict
            b == Openers(fsRun[p].lines) # {}
        IN  outcome[p] # "none" =>
                /\ fs[p] # fsRun[p] => a /\ b
                /\ ~(a /\ b) => fs[p] = fsRun[p] /\ p \notin counted

\* the loading phase fails: no file, a required column missing from the
\* header (or no header at all), or a short row
LoadFails(c) ==
    \/ ~c.is_file
    \/ c.fieldnames.isNone
    \/ ~({PROJECT_NAME_COL, EMAIL_COL} \subseteq c.fieldnames.names)
    \/ \E i \in DOMAIN c.rows : c.rows[i].name.missing \/ c.rows[i].email.missing

\* C2: when the loading phase fails, load_project_data returns None and the
\* run ends before the walk: no configuration file is read or written.
C2_FailedLoadStopsRun ==
    (pc # "start" /\ LoadFails(csv)) =>
        /\ project_info.isNone
        /\ pc = "exit"
        /\ reads = {}
        /\ writes = {}
        /\ fs = fs0

\* a load that fails on its second row, after a row that was accepted
C2_Witness ==
    /\ pc = "exit"
    /\ csv.is_file
    /\ Len(csv.rows) >= 2
    /\ ~csv.rows[1].name.missing /\ ~csv.rows[1].email.missing
    /\ Strip(csv.rows[1].name.text) # <<>> /\ Strip(csv.rows[1].email.text) # <<>>
    /\ csv.rows[2].email.missing
    /\ project_info.isNone

\* C3: a file with an opener followed later by a closer is rewritten as its
\* own line sequence with exactly one biso_team line, carrying the formatted
\* identifier, inserted immediately before the block's closing line.
C3_OneLineInsertedBeforeCloser ==
    \A p \in DOMAIN fs :
        (Updated(p) /\ HasBlock(fsPrev[p].lines)) =>
            LET old == Bodies(fsPrev[p].lines)
                c == BlockEnd(old)
                v == format_email_for_label(
                        project_info.dict[DeclaredName(fsPrev[p].lines)])
            IN  \E n \in 0..8 :
                    Bodies(fs[p].lines) =
                        SubSeq(old, 1, c - 1)
                        \o << [kind |-> "label", indent |-> n, name |-> NoName,
                               value |-> v] >>
                        \o SubSeq(old, c, Len(old))

\* C4: a file without an opener line is not written: it is identical
\* afterwards and the not-found warning is the message reported.
C4_NoBlockNoWrite ==
    \A p \in DOMAIN fs :
        (EditorCalled(p) /\ Openers(fsPrev[p].lines) = {}) =>
            /\ fs[p] = fsPrev[p]
            /\ p \notin writes
            /\ outcome[p] = "notfound"

\* a CRLF file without an opener, on a platform whose write would have
\* changed its bytes
C4_Witness ==
    /\ last = P1
    /\ EditorCalled(P1)
    /\ Openers(fsPrev[P1].lines) = {}
    /\ Closers(fsPrev[P1].lines) # {}
    /\ fsPrev[P1].lines[1].eol = "CRLF"
    /\ platform = "posix"
    /\ outcome[P1] = "notfound"

\* paths that end in project/terragrunt.hcl
Matching(tree) ==
    {p \in DOMAIN tree :
        Len(p) >= 2 /\ SubSeq(p, Len(p) - 1, Len(p)) = <<"project", "terragrunt.hcl">>}

\* matching files whose extracted project name is a key of the mapping
InMapping(tree) ==
    {p \in Matching(tree) :
        /\ tree[p].readable
        /\ ~project_info.isNone
        /\ DeclaredName(tree[p].lines) \in DOMAIN project_info.dict}

\* C5: when main finishes it reports N files processed and M files modified,
\* N the number of files matching **/project/terragrunt.hcl and M the number
\* of those whose extracted project name is a key of the mapping.
C5_SummaryCounts ==
    reported.done =>
        /\ reported.processed = Cardinality(Matching(fsRun))
        /\ reported.modified = Cardinality(InMapping(fsRun))

\* a walk over two matching files, one outside the mapping, in which a file
\* of the mapping was counted although the editor did not update it
C5_Witness ==
    /\ reported.done
    /\ Cardinality(Matching(fsRun)) = 2
    /\ Cardinality(InMapping(fsRun)) = 1
    /\ \E p \in counted : outcome[p] # "updated"

WellFormed(c) ==
    /\ c.is_file
    /\ ~c.fieldnames.isNone
    /\ {PROJECT_NAME_COL, EMAIL_COL} \subseteq c.fieldnames.names
    /\ \A i \in DOMAIN c.rows : ~c.rows[i].name.missing /\ ~c.rows[i].email.missing

\* rows whose trimmed name and trimmed contact are both non-empty
Kept(c) ==
    {i \in DOMAIN c.rows :
        Strip(c.rows[i].name.text) # <<>> /\ Strip(c.rows[i].email.text) # <<>>}

\* C6: for a well-formed lookup file the mapping has exactly the trimmed
\* names of the rows with non-empty trimmed name and contact as keys, and
\* each key maps to the trimmed contact of the last such row with that name.
C6_MappingIsTrimmedPairsLastWins ==
    (pc # "start" /\ WellFormed(csv)) =>
        /\ ~project_info.isNone
        /\ DOMAIN project_info.dict =
              {Strip(csv.rows[i].name.text) : i \in Kept(csv)}
        /\ \A k \in DOMAIN project_info.dict :
              project_info.dict[k] =
                Strip(csv.rows[Max({i \in Kept(csv) :
                          Strip(csv.rows[i].name.text) = k})].email.text)

\* two kept rows whose names differ only by surrounding blanks and whose
\* contacts differ
C6_Witness ==
    /\ pc # "start"
    /\ WellFormed(csv)
    /\ Kept(csv) = {1, 2}
    /\ csv.rows[1].name.text # csv.rows[2].name.text
    /\ Strip(csv.rows[1].name.text) = Strip(csv.rows[2].name.text)
    /\ Strip(csv.rows[1].email.text) # Strip(csv.rows[2].email.text)
    /\ csv.rows[2].email.text # Strip(csv.rows[2].email.text)
    /\ ~project_info.isNone

\* exactly one opener line, with a closer line after it
OneBlock(lines) == Cardinality(Openers(lines)) = 1 /\ HasBlock(lines)

\* C7: after k runs on a file with one labels block, whose project name is
\* in the mapping, the file has k biso_team lines, all of them in the block.
C7_EachRunAddsALine ==
    \A p \in Matching(fs) :
        (/\ pc = "done"
         /\ OneBlock(fs0[p].lines)
         /\ DeclaredName(fs0[p].lines) \in DOMAIN project_info.dict) =>
            /\ Cardinality(BisoLines(fs[p].lines)) = runs
            /\ \A i \in BisoLines(fs[p].lines) :
                  /\ Min(Openers(fs[p].lines)) < i
                  /\ i < BlockEnd(fs[p].lines)

\* the second run has left two biso_team lines in the only block
C7_Witness ==
    /\ pc = "done"
    /\ runs = 2
    /\ P1 \in DOMAIN fs
    /\ OneBlock(fs0[P1].lines)
    /\ Cardinality(BisoLines(fs[P1].lines)) = 2

\* C8: one run on a file with several openers inserts exactly one biso_team
\* line in the whole file.
C8_OnlyFirstBlockEdited ==
    \A p \in DOMAIN fs :
        (/\ Updated(p)
         /\ Cardinality(Openers(fsPrev[p].lines)) >= 2
         /\ HasBlock(fsPrev[p].lines)) =>
            Cardinality(BisoLines(fs[p].lines)) =
                Cardinality(BisoLines(fsPrev[p].lines)) + 1

\* the place in the output of the k-th line inserted by the last run
InsertedAt(k) == edits[k].at + k - 1

\* C9 as stated: the indentation of each inserted line is that of the line
\* immediately before the closer if that line is a label, and 4 otherwise.
C9_IndentFromPrecedingLineOnly ==
    \A p \in DOMAIN fs :
        Updated(p) =>
            \A k \in DOMAIN edits :
                LET prev == fsPrev[p].lines[edits[k].at - 1]
                IN  fs[p].lines[InsertedAt(k)].indent =
                        IF prev.kind = "label" THEN prev.indent ELSE 4

\* C9 amended: the indentation of each inserted line is decided by the
\* nearest label line before the closer, the first line of the file
\* excluded: its leading whitespace if it has any, and 4 spaces if it has
\* none or if there is no such line.
C9_IndentFromNearestLabel ==
    \A p \in DOMAIN fs :
        Updated(p) =>
            \A k \in DOMAIN edits :
                LET old == fsPrev[p].lines
                    J == {j \in 2..(edits[k].at - 1) : old[j].kind = "label"}
                    new == fs[p].lines[InsertedAt(k)]
                IN  /\ new.value # NoValue
                    /\ fs[p].lines[InsertedAt(k) + 1].kind = "closer"
                    /\ new.indent =
                          IF J = {} THEN 4
                          ELSE IF old[Max(J)].indent > 0 THEN old[Max(J)].indent
                          ELSE 4

\* the line before the closer is not a label, and the indentation of an
\* earlier label line was copied
C9_Witness ==
    /\ P1 \in DOMAIN fs
    /\ Updated(P1)
    /\ Len(edits) = 1
    /\ fsPrev[P1].lines[edits[1].at - 1].kind = "other"
    /\ fs[P1].lines[InsertedAt(1)].indent = 2
    /\ fs[P1].lines[InsertedAt(1)].value # NoValue

\* C10: in a file whose lines all end with the same terminator, every line
\* of the rewritten file, the inserted one included, ends with it.
C10_TerminatorsPreserved ==
    \A p \in DOMAIN fs :
        (Updated(p) /\ fsPrev[p].lines # <<>>) =>
            LET e == fsPrev[p].lines[1].eol
            IN  (\A i \in DOMAIN fsPrev[p].lines : fsPrev[p].lines[i].eol = e) =>
                    \A i \in DOMAIN fs[p].lines : fs[p].lines[i].eol = e

====
